---- MODULE Spec2Model ----
(***************************************************************************)
(* Room lifecycle and membership of app/room_model.py: create_room,        *)
(* join_room and start_room running as concurrent request handlers, each   *)
(* inside one `with engine.begin() as conn:` transaction against the MySQL *)
(* tables `room` and `room_user`.                                          *)
(*                                                                         *)
(* A handler is split at its SQL statements, so that handlers interleave   *)
(* exactly where the database lets them.  The committed tables are `room`  *)
(* and `room_user`; what a transaction has written and not yet committed   *)
(* is in tx[p], invisible to the others, and holds the row locks InnoDB    *)
(* gives an INSERT or UPDATE until the transaction ends.  A plain SELECT   *)
(* takes no lock.                                                          *)
(***************************************************************************)
EXTENDS Integers, FiniteSets, TLC

(* ---------------------------- program constants ------------------------ *)

max_user_count == 4

Waiting == 1
LiveStart == 2
Dissolution == 3

Ok == 1
RoomFull == 2
Disbanded == 3
OhterError == 4

normal == 1
hard == 2

(* --------------------------------- bounds ------------------------------ *)

\* request handlers that exist; all of them race in SpecRace, which needs
\* more calls than a room has places
NumProcs == 5
\* request handlers that run concurrently in Spec
NumWorkers == 2
\* user ids that join in Spec
MaxUser == 2
\* user ids that join in SpecSeq; a room is filled by max_user_count of them
MaxSeqUser == 4
\* rooms created in Spec (AUTO_INCREMENT is not followed further)
MaxRoomId == 1
\* rooms created in SpecSeq
MaxSeqRoomId == 2
\* storage statements that fail in one behaviour of Spec
MaxFaults == 1

Procs == 1..NumProcs
Workers == 1..NumWorkers
Users == 1..MaxUser
SeqUsers == 1..MaxSeqUser
RoomIds == 1..MaxRoomId
SeqRoomIds == 1..MaxSeqRoomId
LiveIds == {100, 200}
SeqLiveIds == {100}
\* <<user_id, room_id>> a join is called with in SpecSeq: every user joins the
\* first room, the users of Spec join the later ones
SeqJoins == {j \in SeqUsers \X SeqRoomIds : j[2] = 1 \/ j[1] \in Users}
\* <<live_difficulty, is_host>> a join is called with
JoinOptions == {<<normal, FALSE>>, <<hard, TRUE>>}
\* room_model.py takes `engine` from app/db.py and sets no isolation level of
\* its own: the transactions run at the level the engine and the MySQL server
\* are configured with, InnoDB's default REPEATABLE READ or READ COMMITTED.
\* Both read without locking; they differ in what a second SELECT sees.
Isolations == {"READ-COMMITTED", "REPEATABLE-READ"}

VARIABLES
    isolation,          \* transaction isolation of the engine's connections
    room,               \* committed `room` table: room_id -> row
    room_user,          \* committed `room_user` table: set of rows
    auto_increment,     \* next AUTO_INCREMENT value of room.room_id
    faults,             \* storage statements that have failed so far
    pc,                 \* where each handler is
    args,               \* the call each handler is serving
    room_info,          \* join_room's local room_info
    joined_user_count,  \* _update_room_user_count's local joined_user_count
    tx,                 \* each handler's uncommitted writes
    ret                 \* what the call returned, or that it raised

vars == <<isolation, room, room_user, auto_increment, faults, pc, args,
          room_info, joined_user_count, tx, ret>>

db == <<room, room_user>>

(* ------------------------------- the tables ---------------------------- *)

RoomColumns == {"live_id", "joined_user_count", "status"}

\* a status column whose DEFAULT is 3
NewRoomRowDissolved(live_id, count) ==
    [live_id |-> live_id, joined_user_count |-> count, status |-> Dissolution]

\* INSERT INTO room SET live_id, joined_user_count; status takes DEFAULT 1
NewRoomRow(live_id, count) ==
    [live_id |-> live_id, joined_user_count |-> count, status |-> Waiting]

RoomUserRow(room_id, user_id, live_difficulty, is_host) ==
    [room_id |-> room_id, user_id |-> user_id,
     live_difficulty |-> live_difficulty, is_host |-> is_host]

RoomInfoOf(room_id, row) ==
    [room_id |-> room_id, live_id |-> row.live_id,
     joined_user_count |-> row.joined_user_count,
     max_user_count |-> max_user_count]

NoRoomInfo ==
    [room_id |-> 0, live_id |-> 0, joined_user_count |-> 0, max_user_count |-> 0]

NoArgs ==
    [op |-> "none", user_id |-> 0, room_id |-> 0, live_difficulty |-> 0,
     is_host |-> FALSE, live_id |-> 0]

NoTx == [room_user |-> {}, room |-> {}, updated |-> {}]

\* what a call gave its caller: an exception, or a value (a JoinRoomResult, a
\* room_id, 0 for None) and, from a query, the rows of its result
NoRet == [raised |-> FALSE, value |-> 0, rows |-> {}]
Returned(v) == [raised |-> FALSE, value |-> v, rows |-> {}]
ReturnedRows(rows) == [raised |-> FALSE, value |-> 0, rows |-> rows]
Raised == [raised |-> TRUE, value |-> 0, rows |-> {}]

\* rows of room_user of one room
Members(room_id) == {m \in room_user : m.room_id = room_id}

\* p holds the row lock of room_id: it has updated the row and not committed
HoldsRoomLock(p, room_id) == \E w \in tx[p].updated : w.room_id = room_id

\* p has inserted room room_id and not committed
HoldsNewRoom(p, room_id) == \E w \in tx[p].room : w.room_id = room_id

\* an UPDATE ... WHERE room_id waits while another transaction holds that row
RoomRowFree(p, room_id) ==
    \A q \in Procs \ {p} : ~HoldsRoomLock(q, room_id) /\ ~HoldsNewRoom(q, room_id)

\* p has inserted a room_user row with this primary key and not committed
HoldsKey(p, room_id, user_id) ==
    \E m \in tx[p].room_user : m.room_id = room_id /\ m.user_id = user_id

\* an INSERT waits while another transaction holds the same primary key
KeyFree(p, room_id, user_id) ==
    \A q \in Procs \ {p} : ~HoldsKey(q, room_id, user_id)

\* room_user without its primary key: the INSERT never raises
NoDuplicateKey(room_id, user_id) == FALSE

\* room_user's PRIMARY KEY (room_id, user_id): the INSERT raises on a duplicate
DuplicateKey(room_id, user_id) ==
    \E m \in room_user : m.room_id = room_id /\ m.user_id = user_id

\* the table `room` after a transaction's writes are committed
CommitRoom(t) ==
    LET ids == DOMAIN room \cup {w.room_id : w \in t.room}
        Base(r) == IF r \in DOMAIN room
                   THEN room[r]
                   ELSE (CHOOSE w \in t.room : w.room_id = r).row
    IN  [r \in ids |->
            [c \in RoomColumns |->
                IF \E w \in t.updated : w.room_id = r /\ w.column = c
                THEN (CHOOSE w \in t.updated : w.room_id = r /\ w.column = c).value
                ELSE Base(r)[c]]]

\* one connection shared by all handlers: a COMMIT commits everybody's writes
CommitAll(p) ==
    /\ room' = CommitRoom([room |-> UNION {tx[q].room : q \in Procs},
                           room_user |-> {},
                           updated |-> UNION {tx[q].updated : q \in Procs}])
    /\ room_user' = room_user \cup UNION {tx[q].room_user : q \in Procs}
    /\ tx' = [q \in Procs |-> NoTx]

\* engine.begin().__exit__ without an exception: COMMIT
Commit(p) ==
    /\ room' = CommitRoom(tx[p])
    /\ room_user' = room_user \cup tx[p].room_user
    /\ tx' = [tx EXCEPT ![p] = NoTx]

(* ------------------------------ the handlers --------------------------- *)

Init ==
    /\ isolation \in Isolations
    /\ room = <<>>
    /\ room_user = {}
    /\ auto_increment = 1
    /\ faults = 0
    /\ pc = [p \in Procs |-> "idle"]
    /\ args = [p \in Procs |-> NoArgs]
    /\ room_info = [p \in Procs |-> NoRoomInfo]
    /\ joined_user_count = [p \in Procs |-> 0]
    /\ tx = [p \in Procs |-> NoTx]
    /\ ret = [p \in Procs |-> NoRet]

\* `return r` inside the `with` block: the result is fixed, the block is left next
Finish(p, r) ==
    /\ pc' = [pc EXCEPT ![p] = "commit"]
    /\ ret' = [ret EXCEPT ![p] = r]

\* ---- create_room ----

\* a counter that does not advance: the next INSERT is given the same id
SameAutoIncrement(n) == n

\* room_id is AUTO_INCREMENT: every INSERT INTO room, committed or not, takes
\* the counter's value and advances it
NextAutoIncrement(n) == n + 1

\* `with engine.begin()`, the INSERT and `return result.lastrowid`; rooms are
\* created up to id `last`, where the model stops following AUTO_INCREMENT
create_room(p, live_id, last) ==
    /\ pc[p] = "idle"
    /\ auto_increment <= last
    /\ args' = [args EXCEPT ![p] = [NoArgs EXCEPT !.op = "create_room", !.live_id = live_id]]
    /\ tx' = [tx EXCEPT ![p].room =
                {[room_id |-> auto_increment, row |-> NewRoomRow(live_id, 0)]}]
    /\ auto_increment' = NextAutoIncrement(auto_increment)
    /\ Finish(p, Returned(auto_increment))
    /\ UNCHANGED <<isolation, room, room_user, faults, room_info, joined_user_count>>

\* the INSERT fails: the exception leaves the `with` block (ROLLBACK) and the call
create_room_raises(p, live_id, last) ==
    /\ pc[p] = "idle"
    /\ auto_increment <= last
    /\ faults < MaxFaults
    /\ faults' = faults + 1
    /\ args' = [args EXCEPT ![p] = [NoArgs EXCEPT !.op = "create_room", !.live_id = live_id]]
    /\ pc' = [pc EXCEPT ![p] = "done"]
    /\ ret' = [ret EXCEPT ![p] = Raised]
    /\ UNCHANGED <<isolation, room, room_user, auto_increment, room_info,
                   joined_user_count, tx>>

\* ---- start_room ----

\* the WHERE clause left out: every room matches
MatchedRoomsAll(room_id) == DOMAIN room

\* the rows of room that WHERE room_id=:room_id matches: one, or none
MatchedRooms(room_id) == {r \in DOMAIN room : r = room_id}

\* status=:status bound to WaitRoomStatus.Waiting
SetStatusWaiting(r) == [room_id |-> r, column |-> "status", value |-> Waiting]

\* SET status=:status, bound to WaitRoomStatus.LiveStart.value
SetStatus(r) == [room_id |-> r, column |-> "status", value |-> LiveStart]

\* `with engine.begin()`, UPDATE room SET status=LiveStart WHERE room_id, `return`
start_room(p, room_id) ==
    /\ pc[p] = "idle"
    /\ RoomRowFree(p, room_id)
    /\ args' = [args EXCEPT ![p] = [NoArgs EXCEPT !.op = "start_room", !.room_id = room_id]]
    /\ tx' = [tx EXCEPT ![p].updated =
                {SetStatus(r) : r \in MatchedRooms(room_id)}]
    /\ Finish(p, Returned(0))
    /\ UNCHANGED <<isolation, room, room_user, auto_increment, faults, room_info,
                   joined_user_count>>

\* the UPDATE fails: the exception leaves the `with` block (ROLLBACK) and the call
start_room_raises(p, room_id) ==
    /\ pc[p] = "idle"
    /\ faults < MaxFaults
    /\ faults' = faults + 1
    /\ args' = [args EXCEPT ![p] = [NoArgs EXCEPT !.op = "start_room", !.room_id = room_id]]
    /\ pc' = [pc EXCEPT ![p] = "done"]
    /\ ret' = [ret EXCEPT ![p] = Raised]
    /\ UNCHANGED <<isolation, room, room_user, auto_increment, room_info,
                   joined_user_count, tx>>

\* ---- join_room ----

JoinArgs(user_id, room_id, live_difficulty, is_host) ==
    [NoArgs EXCEPT !.op = "join_room", !.user_id = user_id, !.room_id = room_id,
                   !.live_difficulty = live_difficulty, !.is_host = is_host]

\* WHERE room_id=:room_id AND status=1: only a Waiting room is found
SelectRoomInfoWaiting(room_id) ==
    {RoomInfoOf(r, room[r]) :
        r \in {x \in DOMAIN room : x = room_id /\ room[x].status = Waiting}}

\* the rows of SELECT room_id, live_id, joined_user_count FROM room WHERE room_id
SelectRoomInfo(room_id) ==
    {RoomInfoOf(r, room[r]) : r \in {x \in DOMAIN room : x = room_id}}

\* result.one() raises NoResultFound (no row) or MultipleResultsFound
OneRaises(rows) == Cardinality(rows) # 1

\* result.one() otherwise returns the row; `if row is None` is then never true
get_room_info_by_id(room_id) ==
    LET row == CHOOSE x \in SelectRoomInfo(room_id) : TRUE
    IN  IF row = NoRoomInfo THEN NoRoomInfo ELSE row

\* `>` written for `>=`
IsFullStrict(info) == info.joined_user_count > info.max_user_count

\* room_info.joined_user_count >= room_info.max_user_count
IsFull(info) == info.joined_user_count >= info.max_user_count

\* `with engine.begin()`, _get_room_info_by_id and the two early returns
join_room(p, user_id, room_id, live_difficulty, is_host) ==
    /\ pc[p] = "idle"
    /\ args' = [args EXCEPT ![p] = JoinArgs(user_id, room_id, live_difficulty, is_host)]
    /\ IF OneRaises(SelectRoomInfo(room_id))
       THEN /\ Finish(p, Returned(OhterError))
            /\ UNCHANGED room_info
       ELSE LET info == get_room_info_by_id(room_id) IN
            IF info = NoRoomInfo
            THEN /\ Finish(p, Returned(Disbanded))
                 /\ UNCHANGED room_info
            ELSE IF IsFull(info)
            THEN /\ Finish(p, Returned(RoomFull))
                 /\ UNCHANGED room_info
            ELSE /\ room_info' = [room_info EXCEPT ![p] = info]
                 /\ pc' = [pc EXCEPT ![p] = "create_room_user"]
                 /\ UNCHANGED ret
    /\ UNCHANGED <<isolation, room, room_user, auto_increment, faults,
                   joined_user_count, tx>>

\* the first SELECT fails: `except Exception` returns OhterError
join_room_raises(p, user_id, room_id, live_difficulty, is_host) ==
    /\ pc[p] = "idle"
    /\ faults < MaxFaults
    /\ faults' = faults + 1
    /\ args' = [args EXCEPT ![p] = JoinArgs(user_id, room_id, live_difficulty, is_host)]
    /\ Finish(p, Returned(OhterError))
    /\ UNCHANGED <<isolation, room, room_user, auto_increment, room_info,
                   joined_user_count, tx>>

\* _create_room_user: INSERT INTO room_user; a duplicate key raises
create_room_user(p) ==
    /\ pc[p] = "create_room_user"
    /\ KeyFree(p, args[p].room_id, args[p].user_id)
    /\ IF DuplicateKey(args[p].room_id, args[p].user_id)
       THEN /\ Finish(p, Returned(OhterError))
            /\ UNCHANGED tx
       ELSE /\ tx' = [tx EXCEPT ![p].room_user =
                        {RoomUserRow(args[p].room_id, args[p].user_id,
                                     args[p].live_difficulty, args[p].is_host)}]
            /\ pc' = [pc EXCEPT ![p] = "select_count"]
            /\ UNCHANGED ret
    /\ UNCHANGED <<isolation, room, room_user, auto_increment, faults, args,
                   room_info, joined_user_count>>

\* what SELECT joined_user_count FROM room WHERE room_id returns to p: the last
\* committed value under READ COMMITTED, the value of the transaction's read
\* view (made by its first SELECT, in join_room) under REPEATABLE READ
SelectJoinedUserCount(p) ==
    IF isolation = "READ-COMMITTED"
    THEN room[args[p].room_id].joined_user_count
    ELSE room_info[p].joined_user_count

\* `=` written for `+=`
AssignOffset(count, offset) == offset

\* joined_user_count += offset
AddOffset(count, offset) == count + offset

\* _update_room_user_count, first half: the SELECT and `+= offset`
update_room_user_count_select(p) ==
    /\ pc[p] = "select_count"
    /\ joined_user_count' =
          [joined_user_count EXCEPT ![p] = AddOffset(SelectJoinedUserCount(p), 1)]
    /\ pc' = [pc EXCEPT ![p] = "update_count"]
    /\ UNCHANGED <<isolation, room, room_user, auto_increment, faults, args,
                   room_info, tx, ret>>

\* _update_room_user_count, second half: the UPDATE; then `return Ok`
update_room_user_count_update(p) ==
    /\ pc[p] = "update_count"
    /\ RoomRowFree(p, args[p].room_id)
    /\ tx' = [tx EXCEPT ![p].updated =
                {[room_id |-> args[p].room_id, column |-> "joined_user_count",
                  value |-> joined_user_count[p]]}]
    /\ Finish(p, Returned(Ok))
    /\ UNCHANGED <<isolation, room, room_user, auto_increment, faults, args,
                   room_info, joined_user_count>>

\* a statement after the first fails (a lock wait timeout, say): InnoDB undoes
\* that statement only, `except Exception` returns OhterError
join_statement_raises(p) ==
    /\ pc[p] \in {"create_room_user", "select_count", "update_count"}
    /\ faults < MaxFaults
    /\ faults' = faults + 1
    /\ Finish(p, Returned(OhterError))
    /\ UNCHANGED <<isolation, room, room_user, auto_increment, args, room_info,
                   joined_user_count, tx>>

\* engine.begin() itself fails (no connection): line 192 is outside the `try`
\* of line 193, the exception leaves join_room
join_room_begin_raises(p, user_id, room_id, live_difficulty, is_host) ==
    /\ pc[p] = "idle"
    /\ faults < MaxFaults
    /\ faults' = faults + 1
    /\ args' = [args EXCEPT ![p] = JoinArgs(user_id, room_id, live_difficulty, is_host)]
    /\ pc' = [pc EXCEPT ![p] = "done"]
    /\ ret' = [ret EXCEPT ![p] = Raised]
    /\ UNCHANGED <<isolation, room, room_user, auto_increment, room_info,
                   joined_user_count, tx>>

\* ---- the queries ----

QueryOps == {"get_rooms_by_live_id", "get_room_status", "get_room_users"}

RoomsByLiveIdArgs(live_id) ==
    [NoArgs EXCEPT !.op = "get_rooms_by_live_id", !.live_id = live_id]

RoomStatusArgs(room_id) ==
    [NoArgs EXCEPT !.op = "get_room_status", !.room_id = room_id]

RoomUsersArgs(room_id, user_id_req) ==
    [NoArgs EXCEPT !.op = "get_room_users", !.room_id = room_id,
                   !.user_id = user_id_req]

\* SELECT room_id, live_id, joined_user_count FROM room WHERE live_id, each row
\* through RoomInfo.from_orm
SelectRoomsByLiveId(live_id) ==
    {RoomInfoOf(r, room[r]) : r \in {x \in DOMAIN room : room[x].live_id = live_id}}

\* get_rooms_by_live_id: `with engine.begin()`, the SELECT, `return list(...)`
get_rooms_by_live_id(p, live_id) ==
    /\ pc[p] = "idle"
    /\ args' = [args EXCEPT ![p] = RoomsByLiveIdArgs(live_id)]
    /\ Finish(p, ReturnedRows(SelectRoomsByLiveId(live_id)))
    /\ UNCHANGED <<isolation, room, room_user, auto_increment, faults, room_info,
                   joined_user_count, tx>>

\* the WHERE clause left out: the status of every room
SelectRoomStatusAll(room_id) ==
    {[room_id |-> r, status |-> room[r].status] : r \in DOMAIN room}

\* SELECT room_id, status FROM room WHERE room_id
SelectRoomStatus(room_id) ==
    {[room_id |-> r, status |-> room[r].status] :
        r \in {x \in DOMAIN room : x = room_id}}

\* get_room_status: `with engine.begin()`, the SELECT and result.one(), which
\* raises NoResultFound out of the block (ROLLBACK) and the call when no row is
\* found; otherwise `return RoomStatus.from_orm(row)`
get_room_status(p, room_id) ==
    /\ pc[p] = "idle"
    /\ args' = [args EXCEPT ![p] = RoomStatusArgs(room_id)]
    /\ IF OneRaises(SelectRoomStatus(room_id))
       THEN /\ pc' = [pc EXCEPT ![p] = "done"]
            /\ ret' = [ret EXCEPT ![p] = Raised]
       ELSE Finish(p, ReturnedRows(SelectRoomStatus(room_id)))
    /\ UNCHANGED <<isolation, room, room_user, auto_increment, faults, room_info,
                   joined_user_count, tx>>

\* `!=` written for `==`
RoomUserOfOthers(m, user_id_req) ==
    [room_id |-> m.room_id, user_id |-> m.user_id,
     live_difficulty |-> m.live_difficulty,
     is_me |-> (m.user_id # user_id_req), is_host |-> m.is_host]

\* RoomUser.from_orm(row) with is_me = False, set True `if room_user.user_id ==
\* user_id_req`
RoomUserOf(m, user_id_req) ==
    [room_id |-> m.room_id, user_id |-> m.user_id,
     live_difficulty |-> m.live_difficulty,
     is_me |-> (m.user_id = user_id_req), is_host |-> m.is_host]

\* get_room_users: `with engine.begin()`, SELECT ... FROM room_user WHERE
\* room_id, the loop of _get_room_users, `return users`
get_room_users(p, room_id, user_id_req) ==
    /\ pc[p] = "idle"
    /\ args' = [args EXCEPT ![p] = RoomUsersArgs(room_id, user_id_req)]
    /\ Finish(p, ReturnedRows({RoomUserOf(m, user_id_req) : m \in Members(room_id)}))
    /\ UNCHANGED <<isolation, room, room_user, auto_increment, faults, room_info,
                   joined_user_count, tx>>

\* the SELECT of a query fails: the exception leaves the `with` block
\* (ROLLBACK) and the call
query_raises(p, a) ==
    /\ pc[p] = "idle"
    /\ a.op \in QueryOps
    /\ faults < MaxFaults
    /\ faults' = faults + 1
    /\ args' = [args EXCEPT ![p] = a]
    /\ pc' = [pc EXCEPT ![p] = "done"]
    /\ ret' = [ret EXCEPT ![p] = Raised]
    /\ UNCHANGED <<isolation, room, room_user, auto_increment, room_info,
                   joined_user_count, tx>>

\* ---- leaving the `with engine.begin()` block, and the call ----

\* the block is left by `return`: engine.begin() commits what the handler wrote
exit_commit(p) ==
    /\ pc[p] = "commit"
    /\ Commit(p)
    /\ pc' = [pc EXCEPT ![p] = "done"]
    /\ UNCHANGED <<isolation, auto_increment, faults, args, room_info,
                   joined_user_count, ret>>

\* the COMMIT fails (the connection is lost): nothing of the transaction is
\* kept, and the exception, raised by the `with` statement outside any `try`,
\* leaves the call
exit_commit_raises(p) ==
    /\ pc[p] = "commit"
    /\ faults < MaxFaults
    /\ faults' = faults + 1
    /\ tx' = [tx EXCEPT ![p] = NoTx]
    /\ pc' = [pc EXCEPT ![p] = "done"]
    /\ ret' = [ret EXCEPT ![p] = Raised]
    /\ UNCHANGED <<isolation, room, room_user, auto_increment, args, room_info,
                   joined_user_count>>

\* the caller takes the result; the handler is free for the next request
Return(p) ==
    /\ pc[p] = "done"
    /\ pc' = [pc EXCEPT ![p] = "idle"]
    /\ args' = [args EXCEPT ![p] = NoArgs]
    /\ room_info' = [room_info EXCEPT ![p] = NoRoomInfo]
    /\ joined_user_count' = [joined_user_count EXCEPT ![p] = 0]
    /\ ret' = [ret EXCEPT ![p] = NoRet]
    /\ UNCHANGED <<isolation, room, room_user, auto_increment, faults, tx>>

(* ----------------------------- specifications -------------------------- *)

\* the statements of a call that is under way
Continue(p) ==
    \/ create_room_user(p)
    \/ update_room_user_count_select(p)
    \/ update_room_user_count_update(p)
    \/ exit_commit(p)

\* Spec: NumWorkers handlers serve any calls, concurrently, and up to MaxFaults
\* storage statements fail
Next ==
    \E p \in Workers :
        \/ \E live_id \in LiveIds :
              \/ create_room(p, live_id, MaxRoomId)
              \/ create_room_raises(p, live_id, MaxRoomId)
        \/ \E room_id \in RoomIds :
              \/ start_room(p, room_id)
              \/ start_room_raises(p, room_id)
        \/ \E user_id \in Users, room_id \in RoomIds, o \in JoinOptions :
              \/ join_room(p, user_id, room_id, o[1], o[2])
              \/ join_room_raises(p, user_id, room_id, o[1], o[2])
              \/ join_room_begin_raises(p, user_id, room_id, o[1], o[2])
        \/ \E live_id \in LiveIds :
              \/ get_rooms_by_live_id(p, live_id)
              \/ query_raises(p, RoomsByLiveIdArgs(live_id))
        \/ \E room_id \in RoomIds :
              \/ get_room_status(p, room_id)
              \/ query_raises(p, RoomStatusArgs(room_id))
        \/ \E room_id \in RoomIds, user_id \in Users :
              \/ get_room_users(p, room_id, user_id)
              \/ query_raises(p, RoomUsersArgs(room_id, user_id))
        \/ Continue(p)
        \/ join_statement_raises(p)
        \/ exit_commit_raises(p)
        \/ Return(p)

Spec == Init /\ [][Next]_vars

\* SpecSeq: one handler serves one call after the other, no statement fails
NextSeq ==
    \/ \E live_id \in SeqLiveIds : create_room(1, live_id, MaxSeqRoomId)
    \/ \E room_id \in SeqRoomIds : start_room(1, room_id)
    \/ \E j \in SeqJoins, o \in JoinOptions : join_room(1, j[1], j[2], o[1], o[2])
    \/ \E live_id \in SeqLiveIds : get_rooms_by_live_id(1, live_id)
    \/ \E room_id \in SeqRoomIds : get_room_status(1, room_id)
    \/ \E room_id \in SeqRoomIds, user_id \in SeqUsers :
          get_room_users(1, room_id, user_id)
    \/ Continue(1)
    \/ Return(1)

SpecSeq == Init /\ [][NextSeq]_vars

\* SpecRace: after create_room(100) has returned room 1, every handler p serves
\* one join_room(p, 1, ...) of user p, the first as host; no statement fails
InitRace ==
    /\ isolation \in Isolations
    /\ room = (1 :> NewRoomRow(100, 0))
    /\ room_user = {}
    /\ auto_increment = 2
    /\ faults = 0
    /\ pc = [p \in Procs |-> "idle"]
    /\ args = [p \in Procs |-> NoArgs]
    /\ room_info = [p \in Procs |-> NoRoomInfo]
    /\ joined_user_count = [p \in Procs |-> 0]
    /\ tx = [p \in Procs |-> NoTx]
    /\ ret = [p \in Procs |-> NoRet]

NextRace ==
    \E p \in Procs :
        \/ join_room(p, p, 1, IF p = 1 THEN hard ELSE normal, p = 1)
        \/ Continue(p)

SpecRace == InitRace /\ [][NextRace]_vars

\* SpecRooms: NumWorkers handlers create rooms up to MaxSeqRoomId, start them
\* and let user 1 join them, concurrently; a COMMIT may fail
NextRooms ==
    \E p \in Workers :
        \/ \E live_id \in LiveIds : create_room(p, live_id, MaxSeqRoomId)
        \/ \E room_id \in SeqRoomIds :
              \/ start_room(p, room_id)
              \/ join_room(p, 1, room_id, normal, FALSE)
        \/ Continue(p)
        \/ exit_commit_raises(p)
        \/ Return(p)

SpecRooms == Init /\ [][NextRooms]_vars

(* -------------------------------- the claims --------------------------- *)

JoinedUserCount(room_id) == room[room_id].joined_user_count

Hosts(room_id) == {m \in Members(room_id) : m.is_host}

\* p is serving a join_room call
Joining(p) == args[p].op = "join_room"

\* this step is p's call of join_room
CallsJoin(p) == pc[p] = "idle" /\ pc'[p] # "idle" /\ args'[p].op = "join_room"

\* this step is the commit that ends p's join_room
CommitsJoin(p) == pc[p] = "commit" /\ pc'[p] = "done" /\ Joining(p)

\* every handler of the race has returned
RaceOver == \A p \in Procs : pc[p] = "done"

Results(v) == {p \in Procs : pc[p] = "done" /\ ret[p] = Returned(v)}

\* C1: in every reachable committed state, each room's joined_user_count equals
\* the number of room_user rows of that room (stated as the claim; the code
\* breaks it).
C1_CountEqualsRows ==
    \A r \in DOMAIN room : JoinedUserCount(r) = Cardinality(Members(r))

\* C2: in every reachable state, 0 <= joined_user_count <= max_user_count for
\* every room (stated as the claim; the code breaks it).
C2_CountWithinCapacity ==
    \A r \in DOMAIN room : JoinedUserCount(r) \in 0..max_user_count

\* C3: when N > max_user_count distinct users each make one join_room call on
\* a fresh room and no statement fails, exactly max_user_count calls return Ok,
\* the others RoomFull, and joined_user_count ends at max_user_count (stated as
\* the claim; the code breaks it).
C3_RaceAdmitsExactlyCapacity ==
    RaceOver =>
        /\ Cardinality(Results(Ok)) = max_user_count
        /\ Cardinality(Results(RoomFull)) = NumProcs - max_user_count
        /\ JoinedUserCount(1) = max_user_count

\* C4: in every reachable state, a room has at most max_user_count room_user
\* rows (stated as the claim; the code breaks it).
C4_RowsWithinCapacity ==
    \A r \in DOMAIN room : Cardinality(Members(r)) <= max_user_count

\* C5: join_room on a room_id with no room row returns Disbanded (stated as
\* the claim; the code breaks it).  With one handler and no other call under
\* way, the room is as missing when the call has returned as when it was made.
C5_MissingRoomDisbanded ==
    \A p \in Procs :
        (pc[p] = "done" /\ Joining(p) /\ args[p].room_id \notin DOMAIN room)
            => ret[p] = Returned(Disbanded)

\* C6: a join_room that returns OhterError leaves the committed tables as they
\* were: its commit adds no room_user row and changes no room (stated as the
\* claim; the code breaks it).
C6_ErrorLeavesNoTrace ==
    [][\A p \in Procs :
          (CommitsJoin(p) /\ ret[p] = Returned(OhterError))
              => (room' = room /\ room_user' = room_user)]_vars

\* C7: join_room on an existing room whose joined_user_count is
\* max_user_count returns RoomFull, inserts no room_user row, and its commit
\* leaves every room and every room_user row as it was.
C7_FullRoomRejected ==
    [][\A p \in Procs :
          /\ (/\ CallsJoin(p)
              /\ args'[p].room_id \in DOMAIN room
              /\ JoinedUserCount(args'[p].room_id) = max_user_count)
                => /\ pc'[p] = "commit"
                   /\ ret'[p] = Returned(RoomFull)
                   /\ tx'[p] = NoTx
                   /\ room' = room /\ room_user' = room_user
          /\ (CommitsJoin(p) /\ ret[p] = Returned(RoomFull))
                => (room' = room /\ room_user' = room_user)]_vars

\* C7 witness: a join has returned RoomFull from a room that holds
\* max_user_count members
C7_Witness ==
    \E p \in Procs :
        /\ pc[p] = "done" /\ Joining(p) /\ ret[p] = Returned(RoomFull)
        /\ JoinedUserCount(args[p].room_id) = max_user_count
        /\ Cardinality(Members(args[p].room_id)) = max_user_count

\* C8: with no other call under way and no failing statement, join_room(user,
\* R, difficulty, is_host) on an existing room R with joined_user_count = c <
\* max_user_count and user not yet a member returns Ok, adds exactly the row
\* (R, user, difficulty, is_host), sets R's joined_user_count to c + 1 and
\* changes nothing else; on a room with c = max_user_count it returns RoomFull
\* and changes nothing.
C8_SequentialJoin ==
    [][\A p \in Procs :
          CommitsJoin(p) /\ args[p].room_id \in DOMAIN room =>
              LET r == args[p].room_id
                  c == JoinedUserCount(r)
              IN  /\ (c < max_user_count /\ ~DuplicateKey(r, args[p].user_id)) =>
                        /\ ret[p] = Returned(Ok)
                        /\ room_user' = room_user \cup
                              {RoomUserRow(r, args[p].user_id,
                                           args[p].live_difficulty, args[p].is_host)}
                        /\ Cardinality(room_user') = Cardinality(room_user) + 1
                        /\ room' = [room EXCEPT ![r].joined_user_count = c + 1]
                  /\ c = max_user_count =>
                        /\ ret[p] = Returned(RoomFull)
                        /\ room_user' = room_user
                        /\ room' = room]_vars

\* C8 witness: the fourth join of a room has returned Ok and the room, one of
\* two, holds max_user_count members and counts them
C8_Witness ==
    /\ pc[1] = "done" /\ Joining(1) /\ ret[1] = Returned(Ok)
    /\ Cardinality(DOMAIN room) = 2
    /\ JoinedUserCount(args[1].room_id) = max_user_count
    /\ Cardinality(Members(args[1].room_id)) = max_user_count

\* C9: in every reachable state, each room has at most one room_user row with
\* is_host = true (stated as the claim; the code breaks it).
C9_AtMostOneHost ==
    \A r \in DOMAIN room : Cardinality(Hosts(r)) <= 1

\* C10: no two room_user rows share (room_id, user_id), and the commit of a
\* join_room by a user who is by then a member of the room adds no row and
\* changes no room.
C10_KeyUnique ==
    /\ [](\A m, n \in room_user :
            (m.room_id = n.room_id /\ m.user_id = n.user_id) => m = n)
    /\ [][\A p \in Procs :
            (CommitsJoin(p) /\ DuplicateKey(args[p].room_id, args[p].user_id))
                => (room_user' = room_user /\ room' = room)]_vars

\* C10 witness: with no failing statement, a join that found the room and went
\* on to the INSERT has returned OhterError, and the room has the one row of
\* that user
C10_Witness ==
    \E p \in Procs :
        /\ faults = 0
        /\ pc[p] = "done" /\ Joining(p) /\ ret[p] = Returned(OhterError)
        /\ room_info[p] # NoRoomInfo
        /\ Cardinality({m \in Members(args[p].room_id) :
                          m.user_id = args[p].user_id}) = 1

\* the room_ids create_room has handed out so far: every call takes the
\* counter's value
IssuedRoomIds == 1..(auto_increment - 1)

\* this step is p's call of create_room, up to its `return room_id`
CallsCreate(p) == pc[p] = "idle" /\ pc'[p] = "commit" /\ args'[p].op = "create_room"

\* this step is the commit that ends p's create_room
CommitsCreate(p) ==
    pc[p] = "commit" /\ pc'[p] = "done" /\ args[p].op = "create_room" /\ ~ret'[p].raised

\* C11: create_room(live_id) returns a room_id that no room has and that no
\* earlier or concurrent create_room call was given; its commit adds exactly
\* the room <<live_id, joined_user_count 0, status Waiting>> under that id, the
\* new room has no room_user row, and every other room and every room_user
\* row is as before.
C11_CreateRoomFresh ==
    [][/\ DOMAIN room \subseteq IssuedRoomIds
       /\ IssuedRoomIds \subseteq IssuedRoomIds'
       /\ \A p \in Procs :
            /\ CallsCreate(p) =>
                  /\ ret'[p].value \notin IssuedRoomIds \cup DOMAIN room
                  /\ IssuedRoomIds' = IssuedRoomIds \cup {ret'[p].value}
                  /\ \A q \in Procs \ {p} :
                        (args[q].op = "create_room" /\ ~ret[q].raised)
                            => ret[q].value # ret'[p].value
                  /\ room' = room /\ room_user' = room_user
            /\ CommitsCreate(p) =>
                  /\ ret[p].value \notin DOMAIN room
                  /\ room' = room @@ (ret[p].value :>
                                [live_id |-> args[p].live_id,
                                 joined_user_count |-> 0, status |-> Waiting])
                  /\ room_user' = room_user
                  /\ {m \in room_user' : m.room_id = ret[p].value} = {}]_vars

\* C11 witness: of two concurrent create_room calls, the one given the later
\* id has committed its room, the other, for another live, has not committed yet
C11_Witness ==
    \E p \in Procs, q \in Procs :
        /\ args[p].op = "create_room" /\ args[q].op = "create_room"
        /\ pc[p] = "done" /\ ~ret[p].raised /\ pc[q] = "commit"
        /\ ret[q].value < ret[p].value
        /\ ret[p].value \in DOMAIN room /\ ret[q].value \notin DOMAIN room
        /\ room[ret[p].value] = NewRoomRow(args[p].live_id, 0)
        /\ args[q].live_id # args[p].live_id

\* this step is p's call of operation op, up to its `return`
Calls(p, op) == pc[p] = "idle" /\ pc'[p] # "idle" /\ args'[p].op = op

\* this step is the commit that ends p's call of operation op
Commits(p, op) ==
    pc[p] = "commit" /\ pc'[p] = "done" /\ args[p].op = op /\ ~ret'[p].raised

\* what get_room_status(room_id) returns for a room with this status
StatusResult(room_id, status) ==
    ReturnedRows({[room_id |-> room_id, status |-> status]})

\* C12: the commit of start_room(R) on an existing room R sets R's status to
\* LiveStart whatever it was and changes nothing else (R's joined_user_count
\* and live_id, every other room, every room_user row), so that on a room
\* already LiveStart it changes nothing; the rows get_room_status(R) selects
\* are then R with LiveStart, and a get_room_status(R) call on a started room
\* returns LiveStart.
C12_StartRoomSetsLiveStart ==
    [][\A p \in Procs :
          /\ (Calls(p, "start_room") /\ args'[p].room_id \in DOMAIN room)
                => (room' = room /\ room_user' = room_user)
          /\ (Commits(p, "start_room") /\ args[p].room_id \in DOMAIN room)
                => /\ room' = [room EXCEPT ![args[p].room_id].status = LiveStart]
                   /\ room_user' = room_user
                   /\ room[args[p].room_id].status = LiveStart => room' = room
                   /\ SelectRoomStatus(args[p].room_id)' =
                        {[room_id |-> args[p].room_id, status |-> LiveStart]}
          /\ (/\ Calls(p, "get_room_status")
              /\ args'[p].room_id \in DOMAIN room
              /\ room[args'[p].room_id].status = LiveStart)
                => ret'[p] = StatusResult(args'[p].room_id, LiveStart)]_vars

\* C12 witness: get_room_status has returned LiveStart for a started room that
\* has a member, next to a room still Waiting
C12_Witness ==
    \E p \in Procs, r \in DOMAIN room, o \in DOMAIN room :
        /\ pc[p] = "done" /\ args[p] = RoomStatusArgs(r)
        /\ ret[p] = StatusResult(r, LiveStart)
        /\ room[r].status = LiveStart /\ room[r].joined_user_count > 0
        /\ Members(r) # {}
        /\ room[o].status = Waiting

\* C13: get_room_status(room_id) on a room_id with no room row ends by raising
\* (NoResultFound): it returns no row, in particular no Dissolution, holds no
\* write and leaves both tables unchanged; on an existing room it returns that
\* room's id with its current status, and its commit changes nothing.
C13_StatusOfMissingRoomRaises ==
    [][\A p \in Procs :
          /\ (Calls(p, "get_room_status") /\ args'[p].room_id \notin DOMAIN room)
                => /\ pc'[p] = "done"
                   /\ ret'[p] = Raised
                   /\ tx'[p] = NoTx
                   /\ room' = room /\ room_user' = room_user
          /\ (Calls(p, "get_room_status") /\ args'[p].room_id \in DOMAIN room)
                => /\ ret'[p] = StatusResult(args'[p].room_id,
                                             room[args'[p].room_id].status)
                   /\ room' = room /\ room_user' = room_user
          /\ Calls(p, "get_room_status")
                => \A row \in ret'[p].rows : row.status # Dissolution
          /\ Commits(p, "get_room_status")
                => (room' = room /\ room_user' = room_user)]_vars

\* C13 witness: get_room_status has raised for a room_id that no room has,
\* while another room exists
C13_Witness ==
    \E p \in Procs :
        /\ pc[p] = "done" /\ args[p].op = "get_room_status"
        /\ args[p].room_id \notin DOMAIN room
        /\ ret[p] = Raised
        /\ DOMAIN room # {}

\* the room_user row an entry of get_room_users' result was made from
RowOf(e) == RoomUserRow(e.room_id, e.user_id, e.live_difficulty, e.is_host)

\* C14: get_room_users(R, u) returns one entry for each room_user row of room
\* R and no other, with is_me true on exactly the entries whose user_id is u:
\* on one entry when u is a member of R, on none when u is not; the tables
\* are unchanged.
C14_RoomUsersOfRoom ==
    [][\A p \in Procs :
          Calls(p, "get_room_users") =>
              LET R == args'[p].room_id
                  u == args'[p].user_id
                  users == ret'[p].rows
              IN  /\ ~ret'[p].raised
                  /\ {RowOf(e) : e \in users} = Members(R)
                  /\ Cardinality(users) = Cardinality(Members(R))
                  /\ \A e \in users : e.is_me <=> (e.user_id = u)
                  /\ Cardinality({e \in users : e.is_me}) =
                        IF \E m \in Members(R) : m.user_id = u THEN 1 ELSE 0
                  /\ room' = room /\ room_user' = room_user]_vars

\* C14 witness: get_room_users has returned the four members of a room, one of
\* them the requesting user, while another room has members of its own
C14_Witness ==
    \E p \in Procs :
        /\ pc[p] = "done" /\ args[p].op = "get_room_users"
        /\ Cardinality(ret[p].rows) = max_user_count
        /\ Cardinality({e \in ret[p].rows : e.is_me}) = 1
        /\ \E e \in ret[p].rows : ~e.is_me
        /\ \E m \in room_user : m.room_id # args[p].room_id

\* join_room(a) run alone, from its first SELECT to its commit, on the tables
\* of s: the tables afterwards, and its result noted for handler p
SerialJoin(s, p, a) ==
    LET R == a.room_id
        Result(v) == [s EXCEPT !.results[p] = v]
    IN  IF R \notin DOMAIN s.room
        THEN Result(OhterError)
        ELSE IF IsFull(RoomInfoOf(R, s.room[R]))
        THEN Result(RoomFull)
        ELSE IF \E m \in s.room_user : m.room_id = R /\ m.user_id = a.user_id
        THEN Result(OhterError)
        ELSE [room |-> [s.room EXCEPT ![R].joined_user_count =
                            AddOffset(s.room[R].joined_user_count, 1)],
              room_user |-> s.room_user \cup
                    {RoomUserRow(R, a.user_id, a.live_difficulty, a.is_host)},
              results |-> [s.results EXCEPT ![p] = Ok]]

\* the orders in which the handlers' calls can be run one after the other
Orders == {o \in [1..NumProcs -> Procs] : \A i, j \in 1..NumProcs : o[i] = o[j] => i = j}

\* the tables the race starts from, no call made yet
RaceStart ==
    [room |-> (1 :> NewRoomRow(100, 0)), room_user |-> {},
     results |-> [p \in Procs |-> 0]]

RECURSIVE SerialRun(_, _, _)
\* the calls of the handlers o[i], o[i+1], ... run one after the other from s
SerialRun(o, i, s) ==
    IF i > NumProcs
    THEN s
    ELSE SerialRun(o, i + 1, SerialJoin(s, o[i], args[o[i]]))

\* C15: when concurrent join_room calls on one room have all returned, their
\* results and the committed room and room_user tables are those that running
\* the same calls one after the other, in some order, gives (stated as the
\* claim; the code breaks it).
C15_JoinsSerializable ==
    RaceOver =>
        \E o \in Orders :
            LET s == SerialRun(o, 1, RaceStart)
            IN  /\ room = s.room
                /\ room_user = s.room_user
                /\ \A p \in Procs : ret[p] = Returned(s.results[p])

JoinRoomResults == {Ok, RoomFull, Disbanded, OhterError}

\* C16: a join_room call that has ended has returned one of Ok, RoomFull,
\* Disbanded, OhterError and has not raised (stated as the claim; the code
\* breaks it).
C16_JoinReturnsResult ==
    \A p \in Procs :
        (pc[p] = "done" /\ Joining(p))
            => (~ret[p].raised /\ ret[p].value \in JoinRoomResults)

\* C17: in every step, every room stays, and its status stays or goes from
\* Waiting to LiveStart, which only the commit of a start_room on that room
\* does: a room is created Waiting, a LiveStart room stays LiveStart, and no
\* status becomes Waiting again or Dissolution.
C17_StatusMovesForward ==
    [][/\ \A r \in DOMAIN room :
            /\ r \in DOMAIN room'
            /\ room'[r].status \in {room[r].status, LiveStart}
            /\ room'[r].status # Dissolution
            /\ room[r].status = LiveStart => room'[r].status = LiveStart
            /\ room'[r].status # room[r].status =>
                  \E p \in Procs : Commits(p, "start_room") /\ args[p].room_id = r
       /\ \A r \in DOMAIN room' \ DOMAIN room : room'[r].status = Waiting]_vars

\* C17 witness: start_room has returned on a room that is LiveStart and has a
\* member, while another room is still Waiting
C17_Witness ==
    \E p \in Procs, o \in DOMAIN room :
        /\ pc[p] = "done" /\ args[p].op = "start_room" /\ ~ret[p].raised
        /\ args[p].room_id \in DOMAIN room
        /\ room[args[p].room_id].status = LiveStart
        /\ Members(args[p].room_id) # {}
        /\ room[o].status = Waiting

\* the operations that write
WriteOps == {"create_room", "join_room", "start_room"}

\* this step is a step of p's call of a query
QueryStep(p) ==
    pc'[p] # pc[p] /\ (args[p].op \in QueryOps \/ args'[p].op \in QueryOps)

\* C18: no step of get_rooms_by_live_id, get_room_status or get_room_users,
\* its SELECT, its failure, its commit or its return, changes the room or
\* room_user table or leaves a write to commit; a step that changes a table
\* is the commit of a create_room, join_room or start_room.
C18_QueriesReadOnly ==
    [][/\ \A p \in Procs :
            QueryStep(p) =>
                (room' = room /\ room_user' = room_user /\ tx'[p] = NoTx)
       /\ (room' # room \/ room_user' # room_user) =>
            \E p \in Procs :
                pc[p] = "commit" /\ pc'[p] = "done" /\ args[p].op \in WriteOps]_vars

\* C18 witness: a query has returned rows and committed while another
\* handler's writes were waiting for their commit
C18_Witness ==
    \E p \in Procs, q \in Procs :
        /\ pc[p] = "done" /\ args[p].op \in QueryOps
        /\ ~ret[p].raised /\ ret[p].rows # {}
        /\ pc[q] = "commit" /\ tx[q] # NoTx

\* C19: with no other call under way and no failing statement, join_room on a
\* room R that is LiveStart, with joined_user_count = c < max_user_count, by a
\* user not yet a member passes both checks, returns Ok, adds exactly that
\* user's row, sets the count to c + 1 and leaves R LiveStart, as C8 has it
\* for any room.
C19_JoinIgnoresStatus ==
    [][\A p \in Procs :
          /\ (/\ Calls(p, "join_room")
              /\ args'[p].room_id \in DOMAIN room
              /\ room[args'[p].room_id].status = LiveStart
              /\ JoinedUserCount(args'[p].room_id) < max_user_count)
                => /\ pc'[p] = "create_room_user"
                   /\ room_info'[p] =
                        RoomInfoOf(args'[p].room_id, room[args'[p].room_id])
          /\ (/\ CommitsJoin(p)
              /\ args[p].room_id \in DOMAIN room
              /\ room[args[p].room_id].status = LiveStart
              /\ JoinedUserCount(args[p].room_id) < max_user_count
              /\ ~DuplicateKey(args[p].room_id, args[p].user_id))
                => /\ ret[p] = Returned(Ok)
                   /\ room_user' = room_user \cup
                         {RoomUserRow(args[p].room_id, args[p].user_id,
                                      args[p].live_difficulty, args[p].is_host)}
                   /\ room' = [room EXCEPT ![args[p].room_id].joined_user_count =
                                   JoinedUserCount(args[p].room_id) + 1]
                   /\ room'[args[p].room_id].status = LiveStart]_vars

\* C19 witness: a join_room has returned Ok on a LiveStart room, which has
\* the user among its members and counts them
C19_Witness ==
    \E p \in Procs :
        /\ pc[p] = "done" /\ Joining(p) /\ ret[p] = Returned(Ok)
        /\ room[args[p].room_id].status = LiveStart
        /\ \E m \in Members(args[p].room_id) : m.user_id = args[p].user_id
        /\ JoinedUserCount(args[p].room_id) = Cardinality(Members(args[p].room_id))
        /\ JoinedUserCount(args[p].room_id) > 1

\* C20: start_room(room_id) on a room_id with no room row returns None without
\* raising; its UPDATE writes nothing and its commit creates no room and
\* leaves every room and every room_user row as it was.
C20_StartMissingRoomNoEffect ==
    [][\A p \in Procs :
          /\ (Calls(p, "start_room") /\ args'[p].room_id \notin DOMAIN room)
                => /\ pc'[p] = "commit"
                   /\ ret'[p] = Returned(0)
                   /\ tx'[p] = NoTx
                   /\ room' = room /\ room_user' = room_user
          /\ (/\ pc[p] = "commit" /\ pc'[p] = "done"
              /\ args[p].op = "start_room"
              /\ args[p].room_id \notin DOMAIN room)
                => /\ ret'[p] = Returned(0)
                   /\ room' = room /\ room_user' = room_user]_vars

\* C20 witness: start_room has returned for a room_id that no room has, and
\* the room that exists is still Waiting, with its member
C20_Witness ==
    \E p \in Procs, o \in DOMAIN room :
        /\ pc[p] = "done" /\ args[p].op = "start_room"
        /\ ret[p] = Returned(0)
        /\ args[p].room_id \notin DOMAIN room
        /\ room[o].status = Waiting /\ Members(o) # {}

====
